---------------------------- MODULE Spec2Model ----------------------------
(***************************************************************************)
(* Model of the Ollama swarm proxy (src/app.py): the host registry         *)
(* (ollama_hosts, guarded by `lock`), the round-robin counter              *)
(* (_host_counter, guarded by `_counter_lock`), the register / unregister  *)
(* endpoints, which FastAPI runs on threadpool workers, and the catch-all  *)
(* proxy coroutine, which runs on the event loop thread and retries a      *)
(* failed forward on the next host it has not tried.                       *)
(*                                                                         *)
(* Python names are kept; a leading underscore is dropped                  *)
(* (_host_counter -> host_counter, _counter_lock -> counter_lock).         *)
(* A URL is the sequence of its characters, so that str.rstrip('/') is     *)
(* computed and not assumed.  Python lists are sequences; a 0-based index  *)
(* i of the code is position i + 1 here.                                   *)
(***************************************************************************)
EXTENDS Integers, Sequences, FiniteSets, TLC

\* ------------------------------------------------------------------ bounds

\* get_next_host is not started once the counter has reached this value
MaxCounter == 4

\* ------------------------------------------------------------ input values

\* the URLs callers register: "a", "a/" (the same backend, written with a
\* trailing slash) and "b"
UA == <<"a">>
UAs == <<"a", "/">>
UB == <<"b">>
URLs == {UA, UAs, UB}

\* threadpool workers that run the synchronous endpoints
Threads == {"t1", "t2"}
\* the proxy coroutine on the event loop whose requests are followed
Requests == {"r1"}
\* the proxy coroutines there are; "r2" runs only where two requests are
\* followed at a time (SpecPair)
Coroutines == {"r1", "r2"}

None == "none"
\* Python's None where a host string is expected (next_candidate = None)
NoHost == <<>>

\* ------------------------------------------------------------------- state

VARIABLES
    ollama_hosts,   \* src/app.py:22  the registry, a list of URL strings
    lock,           \* src/app.py:23  holder of `lock`, or None
    host_counter,   \* src/app.py:25  _host_counter
    counter_lock,   \* src/app.py:26  holder of `_counter_lock`, or None
    tpc,            \* per worker thread: its position in register/unregister
    targ,           \* per worker thread: host.url of the call it runs
    running,        \* the coroutine the event loop thread is executing, or None
    pc,             \* per proxy coroutine: its position
    tried_hosts,    \* src/app.py:151 per coroutine
    current_host,   \* src/app.py:153 per coroutine
    host_count,     \* src/app.py:98  local of get_next_host
    response,       \* src/app.py:159 the backend response of the last forward
    reply,          \* what the coroutine answered the caller
    calls,          \* observation: the hosts forward_request was called with
    churn,          \* observation: 0 registry untouched since the request began,
                    \*   1 changed, 2 a host the request had tried was registered again
    rot,            \* observation: hosts returned by get_next_host since the
                    \*   registry last changed
    \* what only the specifications of the admin endpoints follow (SpecAdmin)
    tret,           \* per worker thread: what its last call returned
    tchanged,       \* observation: whether that call changed the registry
    snap,           \* src/app.py:114 the copy admin_pull iterates over
    fidx,           \* the position of a fan-out's `for host in ...` iterator
    results,        \* src/app.py:112,134 `results`, a list of <<key, value>>
    fcalls,         \* observation: the backend calls a fan-out made, with
                    \*   their outcomes
    \* what only the specification of the relay follows (SpecRelay)
    inbound,        \* per coroutine: the inbound request (method, query, body)
    data,           \* src/app.py:148 `data`
    sent,           \* observation: the backend requests forward_request made
    inflight,       \* the response a backend is sending
    recv,           \* how many bytes of its body have arrived
    emitted         \* how many chunks of the reply the caller has received

\* the variables all specifications follow
coreVars == <<ollama_hosts, lock, host_counter, counter_lock, tpc, targ, running,
              pc, tried_hosts, current_host, host_count, response, reply,
              calls, churn, rot>>

adminVars == <<tret, tchanged, snap, fidx, results, fcalls>>
relayVars == <<inbound, data, sent, inflight, recv, emitted>>

\* what Spec and SpecPair leave alone
extVars == <<adminVars, relayVars>>

vars == <<coreVars, adminVars, relayVars>>

regVars == <<ollama_hosts, lock, tpc, targ>>
reqVars == <<pc, tried_hosts, current_host, host_count, response, reply, calls>>

\* ------------------------------------------------------- list primitives

\* Python `x in list`
Contains(list, x) == \E i \in 1..Len(list) : list[i] = x

\* fault: the emptiness test is left out
IsEmpty_never(list) == FALSE

\* Python `not list`
IsEmpty(list) == list = <<>>

\* Python list.index(x), 0-based, for x in list
RECURSIVE IndexFrom(_, _, _)
IndexFrom(list, x, i) ==
    IF list[i + 1] = x THEN i ELSE IndexFrom(list, x, i + 1)

ListIndex(list, x) == IndexFrom(list, x, 0)

\* Python list.append(x)
ListAppend(list, x) == Append(list, x)

\* fault: removal by moving the last entry into the hole
RemoveSwapLast(list, x) ==
    LET k == ListIndex(list, x) + 1
        n == Len(list)
    IN  [i \in 1..(n - 1) |-> IF i = k THEN list[n] ELSE list[i]]

\* Python list.remove(x): deletes the first entry equal to x, for x in list
ListRemove(list, x) ==
    LET k == ListIndex(list, x) + 1
    IN  [i \in 1..(Len(list) - 1) |-> IF i < k THEN list[i] ELSE list[i + 1]]

\* Python str.rstrip('/')
RECURSIVE rstrip(_)
rstrip(s) ==
    IF s # <<>> /\ s[Len(s)] = "/" THEN rstrip(SubSeq(s, 1, Len(s) - 1)) ELSE s

\* the backend a forward to `host` reaches: f"{host.rstrip('/')}/{path...}"
BackendOf(host) == rstrip(host)

Range(s) == {s[i] : i \in 1..Len(s)}

NoDup(s) == \A i, j \in 1..Len(s) : i # j => s[i] # s[j]

Max(a, b) == IF a >= b THEN a ELSE b

\* ----------------------------------------------------------------- Init

\* what a call has returned: the "status" of register / unregister or the
\* "results" of a fan-out (the "hosts" entry of the former is not followed)
NoReturn == [status |-> None, results |-> <<>>]

\* Python's None where a dict is expected, and no inbound request
NoData == <<None>>
NoRequest == [method |-> None, query |-> NoData, body |-> NoData]

NoResponse == [from |-> NoHost, status |-> 0, ctype |-> None, len |-> 0]
NoReply == [status |-> 0, media_type |-> None, chunks |-> <<>>, detail |-> None]

Init ==
    /\ ollama_hosts = <<>>
    /\ lock = None
    /\ host_counter = 0
    /\ counter_lock = None
    /\ tpc = [t \in Threads |-> "idle"]
    /\ targ = [t \in Threads |-> NoHost]
    /\ running = None
    /\ pc = [r \in Coroutines |-> "idle"]
    /\ tried_hosts = [r \in Coroutines |-> <<>>]
    /\ current_host = [r \in Coroutines |-> NoHost]
    /\ host_count = [r \in Coroutines |-> 0]
    /\ response = [r \in Coroutines |-> NoResponse]
    /\ reply = [r \in Coroutines |-> NoReply]
    /\ calls = [r \in Coroutines |-> <<>>]
    /\ churn = [r \in Coroutines |-> 0]
    /\ rot = <<>>
    /\ tret = [t \in Threads |-> NoReturn]
    /\ tchanged = [t \in Threads |-> FALSE]
    /\ snap = [t \in Threads |-> <<>>]
    /\ fidx = [t \in Threads |-> 0]
    /\ results = [t \in Threads |-> <<>>]
    /\ fcalls = [t \in Threads |-> <<>>]
    /\ inbound = [r \in Coroutines |-> NoRequest]
    /\ data = [r \in Coroutines |-> NoData]
    /\ sent = [r \in Coroutines |-> <<>>]
    /\ inflight = [r \in Coroutines |-> NoResponse]
    /\ recv = [r \in Coroutines |-> 0]
    /\ emitted = [r \in Coroutines |-> 0]


\* ------------------------------------------------ register / unregister

\* observation only: every request begun sees that the registry changed;
\* `again` holds the URL just appended (NoHost for a removal)
Touched(again) ==
    [r \in Coroutines |->
        IF pc[r] = "idle" THEN churn[r]
        ELSE IF again # NoHost /\ Contains(tried_hosts[r], again) THEN 2
        ELSE Max(churn[r], 1)]

\* fault: the block is entered without waiting for the lock
AcquireLock_free(t) == lock' = t

\* `with lock:` entered by a worker thread
AcquireLock(t) == lock = None /\ lock' = t

\* leaving the `with lock:` block
ReleaseLock(t) == lock = t /\ lock' = None

\* POST /register: the call reaches `with lock:` and enters it
Register(t, url) ==
    /\ tpc[t] = "idle"
    /\ AcquireLock(t)
    /\ tpc' = [tpc EXCEPT ![t] = "reg_check"]
    /\ targ' = [targ EXCEPT ![t] = url]
    /\ UNCHANGED <<ollama_hosts, host_counter, counter_lock, running, reqVars,
                   churn, rot>>

\* `if host.url not in ollama_hosts:`
RegCheck(t) ==
    /\ tpc[t] = "reg_check"
    /\ tpc' = [tpc EXCEPT ![t] =
                 IF ~Contains(ollama_hosts, targ[t]) THEN "reg_append"
                 ELSE "reg_present"]
    /\ UNCHANGED <<ollama_hosts, lock, targ, host_counter, counter_lock,
                   running, reqVars, churn, rot>>

\* `ollama_hosts.append(host.url)`
RegAppend(t) ==
    /\ tpc[t] = "reg_append"
    /\ ollama_hosts' = ListAppend(ollama_hosts, targ[t])
    /\ tpc' = [tpc EXCEPT ![t] = "reg_added"]
    /\ churn' = Touched(targ[t])
    /\ rot' = <<>>
    /\ UNCHANGED <<lock, targ, host_counter, counter_lock, running, reqVars>>

\* end of the `with lock:` block and `return {"status": "registered", ...}`
RegReturn(t) ==
    /\ tpc[t] \in {"reg_added", "reg_present"}
    /\ ReleaseLock(t)
    /\ tpc' = [tpc EXCEPT ![t] = "idle"]
    /\ targ' = [targ EXCEPT ![t] = NoHost]
    /\ UNCHANGED <<ollama_hosts, host_counter, counter_lock, running, reqVars,
                   churn, rot>>

\* POST /unregister: the call reaches `with lock:` and enters it
Unregister(t, url) ==
    /\ tpc[t] = "idle"
    /\ AcquireLock(t)
    /\ tpc' = [tpc EXCEPT ![t] = "unreg_check"]
    /\ targ' = [targ EXCEPT ![t] = url]
    /\ UNCHANGED <<ollama_hosts, host_counter, counter_lock, running, reqVars,
                   churn, rot>>

\* `if host.url in ollama_hosts:`
UnregCheck(t) ==
    /\ tpc[t] = "unreg_check"
    /\ tpc' = [tpc EXCEPT ![t] =
                 IF Contains(ollama_hosts, targ[t]) THEN "unreg_remove"
                 ELSE "unreg_absent"]
    /\ UNCHANGED <<ollama_hosts, lock, targ, host_counter, counter_lock,
                   running, reqVars, churn, rot>>

\* `ollama_hosts.remove(host.url)`
UnregRemove(t) ==
    /\ tpc[t] = "unreg_remove"
    /\ ollama_hosts' = ListRemove(ollama_hosts, targ[t])
    /\ tpc' = [tpc EXCEPT ![t] = "unreg_removed"]
    /\ churn' = Touched(NoHost)
    /\ rot' = <<>>
    /\ UNCHANGED <<lock, targ, host_counter, counter_lock, running, reqVars>>

\* end of the `with lock:` block and `return {"status": "unregistered", ...}`
UnregReturn(t) ==
    /\ tpc[t] \in {"unreg_removed", "unreg_absent"}
    /\ ReleaseLock(t)
    /\ tpc' = [tpc EXCEPT ![t] = "idle"]
    /\ targ' = [targ EXCEPT ![t] = NoHost]
    /\ UNCHANGED <<ollama_hosts, host_counter, counter_lock, running, reqVars,
                   churn, rot>>


\* ------------------------------------------------------- backend answers

\* statuses httpx's raise_for_status() passes
OkStatuses == {200, 201}
\* statuses for which raise_for_status() raises HTTPStatusError
ErrorStatuses == {404, 500}
\* the Content-Type header of a backend response; None when it sends none
ContentTypes == {None, "application/x-ndjson"}
\* body lengths in bytes: empty, and one byte more than a chunk
BodyLens == {0, 8193}

\* what host `h` can answer with a success status; the body is known by the
\* backend that produced it and its length
OkResponses(h) ==
    {[from |-> BackendOf(h), status |-> s, ctype |-> c, len |-> n] :
        s \in OkStatuses, c \in ContentTypes, n \in BodyLens}

\* what makes forward_request raise HTTPException: httpx.RequestError
\* (status_code=502) or httpx.HTTPStatusError (the backend's status)
Failures ==
    {[kind |-> "RequestError", status |-> 502]} \cup
    {[kind |-> "HTTPStatusError", status |-> s] : s \in ErrorStatuses}

\* ------------------------------------------------------- response relay

\* `chunk_size = 8192`
chunk_size == 8192

\* `content[i:i + chunk_size]`: bytes lo..hi-1 of the body
Slice(content, lo, hi) ==
    [from |-> content.from, lo |-> lo,
     hi |-> IF hi > content.len THEN content.len ELSE hi]

\* stream_gen: `for i in range(0, len(content), chunk_size): yield content[i:i+chunk_size]`
RECURSIVE stream_from(_, _)
stream_from(content, i) ==
    IF i >= content.len THEN <<>>
    ELSE <<Slice(content, i, i + chunk_size)>> \o stream_from(content, i + chunk_size)

stream_gen(resp) == stream_from([from |-> resp.from, len |-> resp.len], 0)

\* `response.headers.get("Content-Type", "application/json")`
content_type(resp) ==
    IF resp.ctype = None THEN "application/json" ELSE resp.ctype

\* fault: status_code is not passed on, the reply gets the default 200
StreamingResponse_200(resp) ==
    [status |-> 200, media_type |-> content_type(resp),
     chunks |-> stream_gen(resp), detail |-> None]

\* `StreamingResponse(stream_gen(), media_type=content_type, status_code=response.status_code)`
StreamingResponse(resp) ==
    [status |-> resp.status, media_type |-> content_type(resp),
     chunks |-> stream_gen(resp), detail |-> None]

\* an HTTPException reaching FastAPI: the caller gets that status and detail
HTTPException(code, text) ==
    [status |-> code, media_type |-> None, chunks |-> <<>>, detail |-> text]

\* an exception that is no HTTPException reaching FastAPI: a 500 answer
ServerError(what) ==
    [status |-> 500, media_type |-> None, chunks |-> <<>>, detail |-> what]


\* --------------------------------------------------------- get_next_host

\* the coroutine ends by answering the caller; the event loop is free again
Answer(r, what) ==
    /\ pc' = [pc EXCEPT ![r] = "done"]
    /\ reply' = [reply EXCEPT ![r] = what]
    /\ host_count' = [host_count EXCEPT ![r] = 0]
    /\ running' = None

\* fault: the counter is advanced before it is used
RoundRobinIndex_shift(counter, count) == (counter + 1) % count

\* `_host_counter % host_count`
RoundRobinIndex(counter, count) == counter % count

\* proxy() is entered (lines 146-151) and calls get_next_host()
ProxyStart(r) ==
    /\ pc[r] = "idle"
    /\ running = None
    /\ host_counter < MaxCounter
    /\ running' = r
    /\ pc' = [pc EXCEPT ![r] = "gnh_lock"]
    /\ tried_hosts' = [tried_hosts EXCEPT ![r] = <<>>]
    /\ UNCHANGED <<regVars, host_counter, counter_lock, current_host, host_count,
                   response, reply, calls, churn, rot>>

\* `with _counter_lock:`
GnhAcquire(r) ==
    /\ running = r
    /\ pc[r] = "gnh_lock"
    /\ counter_lock = None
    /\ counter_lock' = r
    /\ pc' = [pc EXCEPT ![r] = "gnh_empty"]
    /\ UNCHANGED <<regVars, host_counter, running, tried_hosts, current_host,
                   host_count, response, reply, calls, churn, rot>>

\* `if not ollama_hosts: raise HTTPException(status_code=503, ...)`; the
\* exception leaves the with block and proxy(), whose call at line 152 is
\* outside the try
GnhCheckEmpty(r) ==
    /\ running = r
    /\ pc[r] = "gnh_empty"
    /\ IF IsEmpty(ollama_hosts)
       THEN /\ Answer(r, HTTPException(503, "No Ollama hosts registered"))
            /\ counter_lock' = None
       ELSE /\ pc' = [pc EXCEPT ![r] = "gnh_len"]
            /\ UNCHANGED <<counter_lock, running, host_count, reply>>
    /\ UNCHANGED <<regVars, host_counter, tried_hosts, current_host, response,
                   calls, churn, rot>>

\* `host_count = len(ollama_hosts)`
GnhLen(r) ==
    /\ running = r
    /\ pc[r] = "gnh_len"
    /\ host_count' = [host_count EXCEPT ![r] = Len(ollama_hosts)]
    /\ pc' = [pc EXCEPT ![r] = "gnh_index"]
    /\ UNCHANGED <<regVars, host_counter, counter_lock, running, tried_hosts,
                   current_host, response, reply, calls, churn, rot>>

\* `host = ollama_hosts[_host_counter % host_count]`: the modulo raises
\* ZeroDivisionError when host_count is 0, the subscript IndexError when the
\* list is shorter than the index; neither is an HTTPException
GnhIndex(r) ==
    /\ running = r
    /\ pc[r] = "gnh_index"
    /\ IF host_count[r] = 0
       THEN /\ Answer(r, ServerError("ZeroDivisionError"))
            /\ counter_lock' = None
            /\ UNCHANGED current_host
       ELSE IF RoundRobinIndex(host_counter, host_count[r]) >= Len(ollama_hosts)
       THEN /\ Answer(r, ServerError("IndexError"))
            /\ counter_lock' = None
            /\ UNCHANGED current_host
       ELSE /\ current_host' = [current_host EXCEPT ![r] =
                ollama_hosts[RoundRobinIndex(host_counter, host_count[r]) + 1]]
            /\ pc' = [pc EXCEPT ![r] = "gnh_incr"]
            /\ UNCHANGED <<counter_lock, running, host_count, reply>>
    /\ UNCHANGED <<regVars, host_counter, tried_hosts, response, calls, churn, rot>>

\* fault: the counter is wrapped at the registry size instead of growing
GnhIncr_wrap(r) ==
    /\ running = r
    /\ pc[r] = "gnh_incr"
    /\ host_counter' = (host_counter + 1) % Max(Len(ollama_hosts), 1)
    /\ counter_lock' = None
    /\ host_count' = [host_count EXCEPT ![r] = 0]
    /\ pc' = [pc EXCEPT ![r] = "send"]
    /\ rot' = IF churn[r] = 0 THEN Append(rot, current_host[r]) ELSE rot
    /\ UNCHANGED <<regVars, running, tried_hosts, current_host, response, reply,
                   calls, churn>>

\* `_host_counter += 1`, the end of the with block and `return host`
\* (original_host = current_host = the host returned)
GnhIncr(r) ==
    /\ running = r
    /\ pc[r] = "gnh_incr"
    /\ host_counter' = host_counter + 1
    /\ counter_lock' = None
    /\ host_count' = [host_count EXCEPT ![r] = 0]
    /\ pc' = [pc EXCEPT ![r] = "send"]
    /\ rot' = IF churn[r] = 0 THEN Append(rot, current_host[r]) ELSE rot
    /\ UNCHANGED <<regVars, running, tried_hosts, current_host, response, reply,
                   calls, churn>>


\* ------------------------------------------------------ proxy: the loop

\* fault: the host is not recorded
Record_forget(tried, host) == tried

\* `tried_hosts.append(current_host)`
Record(tried, host) == ListAppend(tried, host)

\* lines 156-159: the host is recorded and forward_request awaits the backend;
\* the coroutine is suspended and the event loop runs something else
Send(r) ==
    /\ running = r
    /\ pc[r] = "send"
    /\ tried_hosts' = [tried_hosts EXCEPT ![r] = Record(tried_hosts[r], current_host[r])]
    /\ calls' = [calls EXCEPT ![r] = Append(calls[r], current_host[r])]
    /\ pc' = [pc EXCEPT ![r] = "forward_wait"]
    /\ running' = None
    /\ UNCHANGED <<regVars, host_counter, counter_lock, current_host, host_count,
                   response, reply, churn, rot>>

\* forward_request returns the backend's response (lines 76-79) and proxy
\* returns the StreamingResponse built from it (lines 160-181)
ForwardOk(r, resp) ==
    /\ running = None
    /\ pc[r] = "forward_wait"
    /\ response' = [response EXCEPT ![r] = resp]
    /\ pc' = [pc EXCEPT ![r] = "done"]
    /\ reply' = [reply EXCEPT ![r] = StreamingResponse(resp)]
    /\ UNCHANGED <<regVars, host_counter, counter_lock, running, tried_hosts,
                   current_host, host_count, calls, churn, rot>>

\* forward_request raises HTTPException (lines 81-88) and proxy catches it
\* (line 183): it goes on to `with lock:` of the failover
ForwardFail(r, why) ==
    /\ running = None
    /\ pc[r] = "forward_wait"
    /\ why \in Failures
    /\ running' = r
    /\ pc' = [pc EXCEPT ![r] = "scan_lock"]
    /\ UNCHANGED <<regVars, host_counter, counter_lock, tried_hosts, current_host,
                   host_count, response, reply, calls, churn, rot>>

\* `with lock:` of the failover, entered on the event loop thread
ScanAcquire(r) ==
    /\ running = r
    /\ pc[r] = "scan_lock"
    /\ lock = None
    /\ lock' = r
    /\ pc' = [pc EXCEPT ![r] = "scan"]
    /\ UNCHANGED <<ollama_hosts, tpc, targ, host_counter, counter_lock, running,
                   tried_hosts, current_host, host_count, response, reply, calls,
                   churn, rot>>

\* fault: a failed host that is no longer registered counts as index 0
CurrentIdx_zero(hosts, current) ==
    IF Contains(hosts, current) THEN ListIndex(hosts, current) ELSE 0

\* `ollama_hosts.index(current_host) if current_host in ollama_hosts else -1`
CurrentIdx(hosts, current) ==
    IF Contains(hosts, current) THEN ListIndex(hosts, current) ELSE -1

\* `candidate_idx = (current_idx + i + 1) % len(ollama_hosts)`
CandidateIdx(current_idx, i, n) == (current_idx + i + 1) % n

\* fault: the scan stops at the end of the list instead of wrapping around
RECURSIVE ScanFrom_nowrap(_, _, _, _)
ScanFrom_nowrap(hosts, tried, current_idx, i) ==
    IF current_idx + i + 1 >= Len(hosts) THEN NoHost
    ELSE LET candidate == hosts[current_idx + i + 2]
         IN  IF ~Contains(tried, candidate) THEN candidate
             ELSE ScanFrom_nowrap(hosts, tried, current_idx, i + 1)

\* `for i in range(len(ollama_hosts)):` from iteration i on: the first
\* candidate not in tried_hosts, None when the range is used up
RECURSIVE ScanFrom(_, _, _, _)
ScanFrom(hosts, tried, current_idx, i) ==
    IF i >= Len(hosts) THEN NoHost
    ELSE LET candidate == hosts[CandidateIdx(current_idx, i, Len(hosts)) + 1]
         IN  IF ~Contains(tried, candidate) THEN candidate
             ELSE ScanFrom(hosts, tried, current_idx, i + 1)

\* lines 191-198: next_candidate
NextCandidate(hosts, tried, current) ==
    ScanFrom(hosts, tried, CurrentIdx(hosts, current), 0)

\* what the failover does to the request itself, given the next candidate
ScanOutcome(r) ==
    IF IsEmpty(ollama_hosts)
    THEN /\ Answer(r, HTTPException(503, "No Ollama hosts registered"))
         /\ UNCHANGED current_host
    ELSE LET next_candidate ==
                 NextCandidate(ollama_hosts, tried_hosts[r], current_host[r])
         IN  IF next_candidate = NoHost \/ Contains(tried_hosts[r], next_candidate)
             THEN /\ Answer(r, HTTPException(503, "All available hosts failed"))
                  /\ UNCHANGED current_host
             ELSE /\ current_host' = [current_host EXCEPT ![r] = next_candidate]
                  /\ pc' = [pc EXCEPT ![r] = "send"]
                  /\ UNCHANGED <<running, host_count, reply>>

\* fault: the forward is made inside the `with lock:` block, which is left
\* only when the request ends
Scan_holds(r) ==
    /\ running = r
    /\ pc[r] = "scan"
    /\ lock = r
    /\ ScanOutcome(r)
    /\ lock' = IF pc'[r] = "done" THEN None ELSE r
    /\ UNCHANGED <<ollama_hosts, tpc, targ, host_counter, counter_lock,
                   tried_hosts, response, calls, churn, rot>>

\* fault: the failover advances the round-robin counter as a selection does
Scan_advances(r) ==
    /\ running = r
    /\ pc[r] = "scan"
    /\ lock = r
    /\ lock' = None
    /\ ScanOutcome(r)
    /\ host_counter' = host_counter + 1
    /\ UNCHANGED <<ollama_hosts, tpc, targ, counter_lock,
                   tried_hosts, response, calls, churn, rot>>

\* lines 188-204, the body of the `with lock:` block and what follows it;
\* the lock is held by the coroutine, no await is inside, and the block is
\* left on every path
Scan(r) ==
    /\ running = r
    /\ pc[r] = "scan"
    /\ lock = r
    /\ lock' = None
    /\ IF IsEmpty(ollama_hosts)
       THEN /\ Answer(r, HTTPException(503, "No Ollama hosts registered"))
            /\ UNCHANGED current_host
       ELSE LET next_candidate ==
                    NextCandidate(ollama_hosts, tried_hosts[r], current_host[r])
            IN  IF next_candidate = NoHost \/ Contains(tried_hosts[r], next_candidate)
                THEN /\ Answer(r, HTTPException(503, "All available hosts failed"))
                     /\ UNCHANGED current_host
                ELSE /\ current_host' = [current_host EXCEPT ![r] = next_candidate]
                     /\ pc' = [pc EXCEPT ![r] = "send"]
                     /\ UNCHANGED <<running, host_count, reply>>
    /\ UNCHANGED <<ollama_hosts, tpc, targ, host_counter, counter_lock,
                   tried_hosts, response, calls, churn, rot>>

\* the request is over: its locals (tried_hosts among them) are dropped
Finish(r) ==
    /\ pc[r] = "done"
    /\ pc' = [pc EXCEPT ![r] = "idle"]
    /\ tried_hosts' = [tried_hosts EXCEPT ![r] = <<>>]
    /\ current_host' = [current_host EXCEPT ![r] = NoHost]
    /\ response' = [response EXCEPT ![r] = NoResponse]
    /\ reply' = [reply EXCEPT ![r] = NoReply]
    /\ calls' = [calls EXCEPT ![r] = <<>>]
    /\ churn' = [churn EXCEPT ![r] = 0]
    /\ UNCHANGED <<regVars, host_counter, counter_lock, running, host_count, rot>>

\* ----------------------------------------------------------------- Next

Next ==
    \/ \E t \in Threads, url \in URLs : Register(t, url)
          /\ UNCHANGED extVars
    \/ \E t \in Threads : RegCheck(t)
          /\ UNCHANGED extVars
    \/ \E t \in Threads : RegAppend(t)
          /\ UNCHANGED extVars
    \/ \E t \in Threads : RegReturn(t)
          /\ UNCHANGED extVars
    \/ \E t \in Threads, url \in URLs : Unregister(t, url)
          /\ UNCHANGED extVars
    \/ \E t \in Threads : UnregCheck(t)
          /\ UNCHANGED extVars
    \/ \E t \in Threads : UnregRemove(t)
          /\ UNCHANGED extVars
    \/ \E t \in Threads : UnregReturn(t)
          /\ UNCHANGED extVars
    \/ \E r \in Requests : ProxyStart(r)
          /\ UNCHANGED extVars
    \/ \E r \in Requests : GnhAcquire(r)
          /\ UNCHANGED extVars
    \/ \E r \in Requests : GnhCheckEmpty(r)
          /\ UNCHANGED extVars
    \/ \E r \in Requests : GnhLen(r)
          /\ UNCHANGED extVars
    \/ \E r \in Requests : GnhIndex(r)
          /\ UNCHANGED extVars
    \/ \E r \in Requests : GnhIncr(r)
          /\ UNCHANGED extVars
    \/ \E r \in Requests : Send(r)
          /\ UNCHANGED extVars
    \/ \E r \in Requests : \E resp \in OkResponses(current_host[r]) : ForwardOk(r, resp)
          /\ UNCHANGED extVars
    \/ \E r \in Requests, why \in Failures : ForwardFail(r, why)
          /\ UNCHANGED extVars
    \/ \E r \in Requests : ScanAcquire(r)
          /\ UNCHANGED extVars
    \/ \E r \in Requests : Scan(r)
          /\ UNCHANGED extVars
    \/ \E r \in Requests : Finish(r)
          /\ UNCHANGED extVars

\* the registry and one dispatch; the admin fan-outs and the details of
\* the relay are left to SpecAdmin and SpecRelay
Spec == Init /\ [][Next]_vars

\* ------------------------------------------ two requests at a time

\* the inputs of SpecPair: one worker thread, two URLs, one backend answer
PairThreads == {"t1"}
PairURLs == {UA, UB}
PairResponses(h) ==
    {[from |-> BackendOf(h), status |-> 200, ctype |-> "application/x-ndjson",
      len |-> 0]}

\* the same operations with both coroutines running
NextPair ==
    \/ \E t \in PairThreads, url \in PairURLs : Register(t, url)
          /\ UNCHANGED extVars
    \/ \E t \in PairThreads : RegCheck(t)
          /\ UNCHANGED extVars
    \/ \E t \in PairThreads : RegAppend(t)
          /\ UNCHANGED extVars
    \/ \E t \in PairThreads : RegReturn(t)
          /\ UNCHANGED extVars
    \/ \E t \in PairThreads, url \in PairURLs : Unregister(t, url)
          /\ UNCHANGED extVars
    \/ \E t \in PairThreads : UnregCheck(t)
          /\ UNCHANGED extVars
    \/ \E t \in PairThreads : UnregRemove(t)
          /\ UNCHANGED extVars
    \/ \E t \in PairThreads : UnregReturn(t)
          /\ UNCHANGED extVars
    \/ \E r \in Coroutines : ProxyStart(r)
          /\ UNCHANGED extVars
    \/ \E r \in Coroutines : GnhAcquire(r)
          /\ UNCHANGED extVars
    \/ \E r \in Coroutines : GnhCheckEmpty(r)
          /\ UNCHANGED extVars
    \/ \E r \in Coroutines : GnhLen(r)
          /\ UNCHANGED extVars
    \/ \E r \in Coroutines : GnhIndex(r)
          /\ UNCHANGED extVars
    \/ \E r \in Coroutines : GnhIncr(r)
          /\ UNCHANGED extVars
    \/ \E r \in Coroutines : Send(r)
          /\ UNCHANGED extVars
    \/ \E r \in Coroutines : \E resp \in PairResponses(current_host[r]) : ForwardOk(r, resp)
          /\ UNCHANGED extVars
    \/ \E r \in Coroutines, why \in Failures : ForwardFail(r, why)
          /\ UNCHANGED extVars
    \/ \E r \in Coroutines : ScanAcquire(r)
          /\ UNCHANGED extVars
    \/ \E r \in Coroutines : Scan(r)
          /\ UNCHANGED extVars
    \/ \E r \in Coroutines : Finish(r)
          /\ UNCHANGED extVars

SpecPair == Init /\ [][NextPair]_vars


\* ------------------------------------------------------ admin endpoints

\* `return {"status": "registered", "hosts": ollama_hosts}`
RegisterReturn == [status |-> "registered", results |-> <<>>]

\* `return {"status": "unregistered", "hosts": ollama_hosts}`
UnregisterReturn == [status |-> "unregistered", results |-> <<>>]

\* `return {"results": results}`
ResultsReturn(res) == [status |-> None, results |-> res]

\* Python `d[key] = value` on a dict kept as a list of <<key, value>> in
\* insertion order
DictSet(d, key, value) ==
    IF \E i \in 1..Len(d) : d[i][1] = key
    THEN [i \in 1..Len(d) |-> IF d[i][1] = key THEN <<key, value>> ELSE d[i]]
    ELSE Append(d, <<key, value>>)

DictKeys(d) == [i \in 1..Len(d) |-> d[i][1]]

\* how a backend call of a fan-out can end: well, or with an exception (of
\* requests.RequestException: raise_for_status raises its HTTPError)
FanoutOutcomes == {"ok", "HTTPError"}

\* `results[host] = "success"` / `results[host] = f"failed: {str(e)}"`
PullEntry(out) == IF out = "ok" THEN <<"success">> ELSE <<"failed: ", out>>

\* `results[host] = response.json()` / `results[host] = f"failed: {str(e)}"`
ListEntry(host, out) ==
    IF out = "ok" THEN <<"tags of">> \o BackendOf(host) ELSE <<"failed: ", out>>

\* the variables of a fan-out's own
fanVars == <<snap, fidx, results, fcalls>>

\* a call begins: nothing returned yet
Called(t) ==
    /\ tret' = [tret EXCEPT ![t] = NoReturn]
    /\ tchanged' = [tchanged EXCEPT ![t] = FALSE]

\* POST /admin/pull: `results = {}`, `with lock:` and the copy of the list
AdminPull(t) ==
    /\ tpc[t] = "idle"
    /\ AcquireLock(t)
    /\ tpc' = [tpc EXCEPT ![t] = "pull_next"]
    /\ snap' = [snap EXCEPT ![t] = ollama_hosts]
    /\ fidx' = [fidx EXCEPT ![t] = 0]
    /\ results' = [results EXCEPT ![t] = <<>>]
    /\ fcalls' = [fcalls EXCEPT ![t] = <<>>]
    /\ Called(t)
    /\ UNCHANGED <<ollama_hosts, targ, host_counter, counter_lock, running,
                   reqVars, churn, rot, relayVars>>

\* `for host in ollama_hosts[:]`: the next host and `requests.post(...)`
\* sent to it, or the end of the loop
PullNext(t) ==
    /\ tpc[t] = "pull_next"
    /\ IF fidx[t] < Len(snap[t])
       THEN /\ tpc' = [tpc EXCEPT ![t] = "pull_wait"]
            /\ targ' = [targ EXCEPT ![t] = snap[t][fidx[t] + 1]]
            /\ fidx' = [fidx EXCEPT ![t] = fidx[t] + 1]
       ELSE /\ tpc' = [tpc EXCEPT ![t] = "pull_return"]
            /\ UNCHANGED <<targ, fidx>>
    /\ UNCHANGED <<ollama_hosts, lock, host_counter, counter_lock, running,
                   reqVars, churn, rot, tret, tchanged, snap, results, fcalls,
                   relayVars>>

\* fault: a failing backend call is not caught and ends the fan-out
PullAnswer_raises(t, out) ==
    /\ tpc[t] = "pull_wait"
    /\ out \in FanoutOutcomes
    /\ fcalls' = [fcalls EXCEPT ![t] = Append(fcalls[t], <<targ[t], out>>)]
    /\ IF out = "ok"
       THEN /\ results' = [results EXCEPT ![t] = DictSet(results[t], targ[t], PullEntry(out))]
            /\ tpc' = [tpc EXCEPT ![t] = "pull_next"]
       ELSE /\ tpc' = [tpc EXCEPT ![t] = "pull_return"]
            /\ UNCHANGED results
    /\ targ' = [targ EXCEPT ![t] = NoHost]
    /\ UNCHANGED <<ollama_hosts, lock, host_counter, counter_lock, running,
                   reqVars, churn, rot, tret, tchanged, snap, fidx, relayVars>>

\* lines 117-128: the backend call ends, well or with an exception that
\* `except Exception` catches, and the host gets its entry
PullAnswer(t, out) ==
    /\ tpc[t] = "pull_wait"
    /\ out \in FanoutOutcomes
    /\ fcalls' = [fcalls EXCEPT ![t] = Append(fcalls[t], <<targ[t], out>>)]
    /\ results' = [results EXCEPT ![t] = DictSet(results[t], targ[t], PullEntry(out))]
    /\ tpc' = [tpc EXCEPT ![t] = "pull_next"]
    /\ targ' = [targ EXCEPT ![t] = NoHost]
    /\ UNCHANGED <<ollama_hosts, lock, host_counter, counter_lock, running,
                   reqVars, churn, rot, tret, tchanged, snap, fidx, relayVars>>

\* the end of a fan-out: the with block is left and `{"results": results}`
\* returned; the locals are dropped
FanoutReturn(t) ==
    /\ tpc[t] \in {"pull_return", "list_return"}
    /\ ReleaseLock(t)
    /\ tret' = [tret EXCEPT ![t] = ResultsReturn(results[t])]
    /\ tpc' = [tpc EXCEPT ![t] = "idle"]
    /\ snap' = [snap EXCEPT ![t] = <<>>]
    /\ fidx' = [fidx EXCEPT ![t] = 0]
    /\ results' = [results EXCEPT ![t] = <<>>]
    /\ fcalls' = [fcalls EXCEPT ![t] = <<>>]
    /\ UNCHANGED <<ollama_hosts, targ, host_counter, counter_lock, running,
                   reqVars, churn, rot, tchanged, relayVars>>

\* GET /admin/list_models: `results = {}` and `with lock:`
AdminList(t) ==
    /\ tpc[t] = "idle"
    /\ AcquireLock(t)
    /\ tpc' = [tpc EXCEPT ![t] = "list_next"]
    /\ fidx' = [fidx EXCEPT ![t] = 0]
    /\ results' = [results EXCEPT ![t] = <<>>]
    /\ fcalls' = [fcalls EXCEPT ![t] = <<>>]
    /\ Called(t)
    /\ UNCHANGED <<ollama_hosts, targ, host_counter, counter_lock, running,
                   reqVars, churn, rot, snap, relayVars>>

\* `for host in ollama_hosts`, on the list itself: the next host and
\* `requests.get(...)` sent to it, or the end of the loop
ListNext(t) ==
    /\ tpc[t] = "list_next"
    /\ IF fidx[t] < Len(ollama_hosts)
       THEN /\ tpc' = [tpc EXCEPT ![t] = "list_wait"]
            /\ targ' = [targ EXCEPT ![t] = ollama_hosts[fidx[t] + 1]]
            /\ fidx' = [fidx EXCEPT ![t] = fidx[t] + 1]
       ELSE /\ tpc' = [tpc EXCEPT ![t] = "list_return"]
            /\ UNCHANGED <<targ, fidx>>
    /\ UNCHANGED <<ollama_hosts, lock, host_counter, counter_lock, running,
                   reqVars, churn, rot, tret, tchanged, snap, results, fcalls,
                   relayVars>>

\* lines 138-142: the backend call ends, well or with a
\* requests.RequestException, and the host gets its entry
ListAnswer(t, out) ==
    /\ tpc[t] = "list_wait"
    /\ out \in FanoutOutcomes
    /\ fcalls' = [fcalls EXCEPT ![t] = Append(fcalls[t], <<targ[t], out>>)]
    /\ results' = [results EXCEPT ![t] =
                     DictSet(results[t], targ[t], ListEntry(targ[t], out))]
    /\ tpc' = [tpc EXCEPT ![t] = "list_next"]
    /\ targ' = [targ EXCEPT ![t] = NoHost]
    /\ UNCHANGED <<ollama_hosts, lock, host_counter, counter_lock, running,
                   reqVars, churn, rot, tret, tchanged, snap, fidx, relayVars>>

\* the endpoints the worker threads run, with what they return
NextAdmin ==
    \/ \E t \in Threads, url \in URLs : Register(t, url)
          /\ Called(t) /\ UNCHANGED <<fanVars, relayVars>>
    \/ \E t \in Threads : RegCheck(t)
          /\ UNCHANGED extVars
    \/ \E t \in Threads : RegAppend(t)
          /\ tchanged' = [tchanged EXCEPT ![t] = TRUE]
          /\ UNCHANGED <<tret, fanVars, relayVars>>
    \/ \E t \in Threads : RegReturn(t)
          /\ tret' = [tret EXCEPT ![t] = RegisterReturn]
          /\ UNCHANGED <<tchanged, fanVars, relayVars>>
    \/ \E t \in Threads, url \in URLs : Unregister(t, url)
          /\ Called(t) /\ UNCHANGED <<fanVars, relayVars>>
    \/ \E t \in Threads : UnregCheck(t)
          /\ UNCHANGED extVars
    \/ \E t \in Threads : UnregRemove(t)
          /\ tchanged' = [tchanged EXCEPT ![t] = TRUE]
          /\ UNCHANGED <<tret, fanVars, relayVars>>
    \/ \E t \in Threads : UnregReturn(t)
          /\ tret' = [tret EXCEPT ![t] = UnregisterReturn]
          /\ UNCHANGED <<tchanged, fanVars, relayVars>>
    \/ \E t \in Threads : AdminPull(t)
    \/ \E t \in Threads : PullNext(t)
    \/ \E t \in Threads, out \in FanoutOutcomes : PullAnswer(t, out)
    \/ \E t \in Threads : AdminList(t)
    \/ \E t \in Threads : ListNext(t)
    \/ \E t \in Threads, out \in FanoutOutcomes : ListAnswer(t, out)
    \/ \E t \in Threads : FanoutReturn(t)

SpecAdmin == Init /\ [][NextAdmin]_vars

\* ---------------------------------------------------------------- relay

\* the inbound requests followed: a GET without and with query parameters,
\* and a POST with a JSON body
InboundRequests ==
    {[method |-> "GET", query |-> <<>>, body |-> NoData],
     [method |-> "GET", query |-> <<"q">>, body |-> NoData],
     [method |-> "POST", query |-> <<>>, body |-> <<"p">>]}

\* `data = await request.json() if request.method == "POST" else {}`
request_data(req) == IF req.method = "POST" THEN req.body ELSE <<>>

\* what forward_request puts on the wire: `client.get(url, params=data if
\* data else None)` or `client.post(url, json=data)`
forward_request(method, d, host) ==
    [method |-> method,
     to     |-> BackendOf(host),
     params |-> IF method = "GET" /\ d # <<>> THEN d ELSE NoData,
     json   |-> IF method = "POST" THEN d ELSE NoData]

RelayThreads == {"t1"}
RelayURLs == {UA, UB}

\* the answers a backend gives here: an empty body and one of two chunks
RelayResponses(h) ==
    {[from |-> BackendOf(h), status |-> 200, ctype |-> "application/x-ndjson",
      len |-> n] : n \in BodyLens}

Min(a, b) == IF a <= b THEN a ELSE b

\* the backend answers well: status and headers are there, the body follows
BackendBegins(r, resp) ==
    /\ pc[r] = "forward_wait"
    /\ inflight[r] = NoResponse
    /\ inflight' = [inflight EXCEPT ![r] = resp]
    /\ recv' = [recv EXCEPT ![r] = 0]
    /\ UNCHANGED <<coreVars, adminVars, inbound, data, sent, emitted>>

\* the backend sends a further piece of its body
BackendSends(r) ==
    /\ pc[r] = "forward_wait"
    /\ inflight[r] # NoResponse
    /\ recv[r] < inflight[r].len
    /\ recv' = [recv EXCEPT ![r] = Min(recv[r] + chunk_size, inflight[r].len)]
    /\ UNCHANGED <<coreVars, adminVars, inbound, data, sent, inflight, emitted>>

\* `response = await client.get(...)` / `client.post(...)` (not client.stream):
\* the await ends when the whole body has been read into response.content;
\* proxy then returns its StreamingResponse
RelayOk(r) ==
    /\ inflight[r] # NoResponse
    /\ recv[r] = inflight[r].len
    /\ ForwardOk(r, inflight[r])
    /\ UNCHANGED <<adminVars, inbound, data, sent, inflight, recv, emitted>>

\* the StreamingResponse takes the next chunk of stream_gen to the caller
Emit(r) ==
    /\ pc[r] = "done"
    /\ emitted[r] < Len(reply[r].chunks)
    /\ emitted' = [emitted EXCEPT ![r] = emitted[r] + 1]
    /\ UNCHANGED <<coreVars, adminVars, inbound, data, sent, inflight, recv>>

\* one proxied request with its payload, the backend's body on its way and
\* the chunks on their way to the caller
NextRelay ==
    \/ \E t \in RelayThreads, url \in RelayURLs : Register(t, url)
          /\ UNCHANGED extVars
    \/ \E t \in RelayThreads : RegCheck(t)
          /\ UNCHANGED extVars
    \/ \E t \in RelayThreads : RegAppend(t)
          /\ UNCHANGED extVars
    \/ \E t \in RelayThreads : RegReturn(t)
          /\ UNCHANGED extVars
    \/ \E t \in RelayThreads, url \in RelayURLs : Unregister(t, url)
          /\ UNCHANGED extVars
    \/ \E t \in RelayThreads : UnregCheck(t)
          /\ UNCHANGED extVars
    \/ \E t \in RelayThreads : UnregRemove(t)
          /\ UNCHANGED extVars
    \/ \E t \in RelayThreads : UnregReturn(t)
          /\ UNCHANGED extVars
    \/ \E r \in Requests, req \in InboundRequests : ProxyStart(r)
          /\ inbound' = [inbound EXCEPT ![r] = req]
          /\ data' = [data EXCEPT ![r] = request_data(req)]
          /\ UNCHANGED <<adminVars, sent, inflight, recv, emitted>>
    \/ \E r \in Requests : GnhAcquire(r)
          /\ UNCHANGED extVars
    \/ \E r \in Requests : GnhCheckEmpty(r)
          /\ UNCHANGED extVars
    \/ \E r \in Requests : GnhLen(r)
          /\ UNCHANGED extVars
    \/ \E r \in Requests : GnhIndex(r)
          /\ UNCHANGED extVars
    \/ \E r \in Requests : GnhIncr(r)
          /\ UNCHANGED extVars
    \/ \E r \in Requests : Send(r)
          /\ sent' = [sent EXCEPT ![r] =
                        Append(sent[r], forward_request(inbound[r].method,
                                                        data[r], current_host[r]))]
          /\ UNCHANGED <<adminVars, inbound, data, inflight, recv, emitted>>
    \/ \E r \in Requests : \E resp \in RelayResponses(current_host[r]) :
          BackendBegins(r, resp)
    \/ \E r \in Requests : BackendSends(r)
    \/ \E r \in Requests : RelayOk(r)
    \/ \E r \in Requests, why \in Failures : ForwardFail(r, why)
          /\ inflight[r] = NoResponse
          /\ UNCHANGED extVars
    \/ \E r \in Requests : ScanAcquire(r)
          /\ UNCHANGED extVars
    \/ \E r \in Requests : Scan(r)
          /\ UNCHANGED extVars
    \/ \E r \in Requests : Emit(r)
    \/ \E r \in Requests : Finish(r)
          /\ inbound' = [inbound EXCEPT ![r] = NoRequest]
          /\ data' = [data EXCEPT ![r] = NoData]
          /\ sent' = [sent EXCEPT ![r] = <<>>]
          /\ inflight' = [inflight EXCEPT ![r] = NoResponse]
          /\ recv' = [recv EXCEPT ![r] = 0]
          /\ emitted' = [emitted EXCEPT ![r] = 0]
          /\ UNCHANGED adminVars

SpecRelay == Init /\ [][NextRelay]_vars

\* ------------------------------------------------------------ removals

\* no request is between its arrival and its answer
AllIdle == \A r \in Requests : pc[r] = "idle"

\* no register call is under way
NoneRegistering ==
    \A t \in PairThreads : tpc[t] \notin {"reg_check", "reg_append"}

\* the endpoints with hosts registered only while no request is in flight:
\* during a request the registry can only lose hosts
NextShrink ==
    \/ \E t \in PairThreads, url \in PairURLs : AllIdle /\ Register(t, url)
          /\ UNCHANGED extVars
    \/ \E t \in PairThreads : RegCheck(t)
          /\ UNCHANGED extVars
    \/ \E t \in PairThreads : RegAppend(t)
          /\ UNCHANGED extVars
    \/ \E t \in PairThreads : RegReturn(t)
          /\ UNCHANGED extVars
    \/ \E t \in PairThreads, url \in PairURLs : Unregister(t, url)
          /\ UNCHANGED extVars
    \/ \E t \in PairThreads : UnregCheck(t)
          /\ UNCHANGED extVars
    \/ \E t \in PairThreads : UnregRemove(t)
          /\ UNCHANGED extVars
    \/ \E t \in PairThreads : UnregReturn(t)
          /\ UNCHANGED extVars
    \/ \E r \in Requests : NoneRegistering /\ ProxyStart(r)
          /\ UNCHANGED extVars
    \/ \E r \in Requests : GnhAcquire(r)
          /\ UNCHANGED extVars
    \/ \E r \in Requests : GnhCheckEmpty(r)
          /\ UNCHANGED extVars
    \/ \E r \in Requests : GnhLen(r)
          /\ UNCHANGED extVars
    \/ \E r \in Requests : GnhIndex(r)
          /\ UNCHANGED extVars
    \/ \E r \in Requests : GnhIncr(r)
          /\ UNCHANGED extVars
    \/ \E r \in Requests : Send(r)
          /\ UNCHANGED extVars
    \/ \E r \in Requests : \E resp \in OkResponses(current_host[r]) : ForwardOk(r, resp)
          /\ UNCHANGED extVars
    \/ \E r \in Requests, why \in Failures : ForwardFail(r, why)
          /\ UNCHANGED extVars
    \/ \E r \in Requests : ScanAcquire(r)
          /\ UNCHANGED extVars
    \/ \E r \in Requests : Scan(r)
          /\ UNCHANGED extVars
    \/ \E r \in Requests : Finish(r)
          /\ UNCHANGED extVars

SpecShrink == Init /\ [][NextShrink]_vars

\* ================================================================ claims

\* ---- C1 ----------------------------------------------------------------
\* C1: whatever register and unregister calls have run, on either worker
\* thread and in any interleaving, no URL occurs twice in ollama_hosts.
C1_NoDuplicateHost == NoDup(ollama_hosts)

\* a register call found its URL already present in a registry of two hosts
C1_Witness ==
    \E t \in Threads :
        /\ tpc[t] = "reg_present"
        /\ Len(ollama_hosts) >= 2
        /\ Contains(ollama_hosts, targ[t])

\* ---- C2 ----------------------------------------------------------------
\* the list `after` is `before` with its entry number k taken out
RemovedAt(before, after, k) ==
    /\ Len(after) = Len(before) - 1
    /\ \A i \in 1..Len(after) :
          after[i] = IF i < k THEN before[i] ELSE before[i + 1]

\* C2: every step leaves the registry as it is, or is the append of a URL
\* that was not in it at its end, or takes out the one entry equal to the
\* URL being unregistered; the other entries keep their relative order.
C2_OrderStep ==
    \/ ollama_hosts' = ollama_hosts
    \/ \E t \in Threads :
          /\ tpc[t] = "reg_append"
          /\ ~Contains(ollama_hosts, targ[t])
          /\ Len(ollama_hosts') = Len(ollama_hosts) + 1
          /\ SubSeq(ollama_hosts', 1, Len(ollama_hosts)) = ollama_hosts
          /\ ollama_hosts'[Len(ollama_hosts')] = targ[t]
    \/ \E t \in Threads :
          /\ tpc[t] = "unreg_remove"
          /\ \E k \in 1..Len(ollama_hosts) :
                /\ ollama_hosts[k] = targ[t]
                /\ RemovedAt(ollama_hosts, ollama_hosts', k)
          /\ ~Contains(ollama_hosts', targ[t])

C2_RegistrationOrder == [][C2_OrderStep]_vars

\* "a" has just been removed from a registry of three, and the two
\* survivors stand in the order they were registered in
C2_Witness ==
    \E t \in Threads :
        /\ tpc[t] = "unreg_removed"
        /\ targ[t] = UA
        /\ ollama_hosts = <<UAs, UB>>


\* ---- C3 ----------------------------------------------------------------
\* rot holds the hosts that consecutive get_next_host calls returned while
\* the registry stayed as it is now; the call that returned rot[k] ran with
\* the counter at host_counter - Len(rot) + k - 1
CursorOf(k) == host_counter - Len(rot) + k - 1

\* the windows of N consecutive calls, N the size of the registry
Windows ==
    IF ollama_hosts = <<>> \/ Len(rot) < Len(ollama_hosts) THEN {}
    ELSE 1..(Len(rot) - Len(ollama_hosts) + 1)

WindowAt(s) == SubSeq(rot, s, s + Len(ollama_hosts) - 1)

\* C3 as stated: with a registry of size N that does not change, N
\* consecutive calls of get_next_host return the registered hosts in
\* registration order, that is, the registry itself.
C3_InRegistrationOrder == \A s \in Windows : WindowAt(s) = ollama_hosts

\* C3 amended: with a registry of size N that does not change, N consecutive
\* calls of get_next_host return every registered host exactly once before
\* any host is returned again, in registration order taken cyclically: the
\* call made at counter value c returns the host at index c mod N, so the
\* first of the N calls returns the host at index (counter mod N), not
\* necessarily the host registered first.
C3_CyclicRegistrationOrder ==
    /\ \A k \in 1..Len(rot) :
          /\ ollama_hosts # <<>>
          /\ rot[k] = ollama_hosts[(CursorOf(k) % Len(ollama_hosts)) + 1]
    /\ \A s \in Windows :
          /\ NoDup(WindowAt(s))
          /\ Range(WindowAt(s)) = Range(ollama_hosts)

\* three hosts, three consecutive calls, the first of them made with the
\* counter at 1: the rotation starts at the second host
C3_Witness ==
    /\ Len(ollama_hosts) = 3
    /\ Len(rot) = 3
    /\ CursorOf(1) = 1
    /\ rot = <<ollama_hosts[2], ollama_hosts[3], ollama_hosts[1]>>

\* ---- C4 ----------------------------------------------------------------
\* C4: a get_next_host call fails only with the 503 of the empty registry:
\* a request that ended without any forward (the failure came from
\* get_next_host) carries that 503 and nothing else.
C4_NextFailsOnlyWhenEmpty ==
    \A r \in Requests :
        (pc[r] = "done" /\ calls[r] = <<>>)
            => reply[r] = HTTPException(503, "No Ollama hosts registered")

\* ---- C5 ----------------------------------------------------------------
\* C5: register, unregister and get_next_host exclude one another: no state
\* has a get_next_host call between `host_count = len(ollama_hosts)` and
\* `ollama_hosts[_host_counter % host_count]` while a worker thread is
\* inside register's or unregister's `with lock:` block.
C5_OneMutualExclusionDomain ==
    \A r \in Requests :
        pc[r] = "gnh_index" => \A t \in Threads : tpc[t] = "idle"


\* ---- C6 ----------------------------------------------------------------
\* the chunks are, in order and without gap or overlap, bytes 0..len-1 of
\* the body the backend `from` sent, each chunk non-empty
WholeBody(chunks, from, len) ==
    /\ \A i \in 1..Len(chunks) :
          /\ chunks[i].from = from
          /\ chunks[i].lo < chunks[i].hi
          /\ chunks[i].lo = IF i = 1 THEN 0 ELSE chunks[i - 1].hi
    /\ IF chunks = <<>> THEN len = 0 ELSE chunks[Len(chunks)].hi = len

\* the request ended with a backend response after exactly one failed forward
FailedThenSucceeded(r) ==
    /\ pc[r] = "done"
    /\ response[r] # NoResponse
    /\ Len(calls[r]) = 2

\* what C6 has in common with its amended form: host A was forwarded to
\* once, then B, nothing after it; the response is that of B's backend and
\* the reply has its status and its body
C6_Common(r) ==
    /\ calls[r] = tried_hosts[r]
    /\ calls[r][1] # calls[r][2]
    /\ current_host[r] = calls[r][2]
    /\ response[r].from = BackendOf(calls[r][2])
    /\ reply[r].status = response[r].status
    /\ reply[r].detail = None
    /\ WholeBody(reply[r].chunks, response[r].from, response[r].len)

\* C6 as stated: the reply is B's response with status, content type and
\* body unmodified, A was attempted once and no further host was.
C6_ResponseUnmodified ==
    \A r \in Requests :
        FailedThenSucceeded(r) =>
            /\ C6_Common(r)
            /\ reply[r].media_type = response[r].ctype

\* C6 amended: the reply has B's status and body unmodified and B's content
\* type when B's response carries a Content-Type header; when it carries
\* none the reply's content type is "application/json".  A was attempted
\* exactly once and no further host was attempted.
C6_ResponseRelayed ==
    \A r \in Requests :
        FailedThenSucceeded(r) =>
            /\ C6_Common(r)
            /\ response[r].ctype # None => reply[r].media_type = response[r].ctype
            /\ response[r].ctype = None => reply[r].media_type = "application/json"

\* the forward to "a" failed, the one to "b" answered 201 with a body of two
\* chunks and a Content-Type, and the reply carries them
C6_Witness ==
    \E r \in Requests :
        /\ FailedThenSucceeded(r)
        /\ calls[r] = <<UA, UB>>
        /\ response[r].status = 201
        /\ response[r].ctype = "application/x-ndjson"
        /\ Len(reply[r].chunks) = 2

\* ---- C7 ----------------------------------------------------------------
\* C7: a request whose get_next_host finds the registry empty ends there
\* with the 503 answer, no host tried and no backend called.
C7_Step ==
    \A r \in Requests :
        (pc[r] = "gnh_empty" /\ ollama_hosts = <<>> /\ pc'[r] # pc[r]) =>
            /\ pc'[r] = "done"
            /\ reply'[r].status = 503
            /\ reply'[r].detail = "No Ollama hosts registered"
            /\ tried_hosts'[r] = <<>>
            /\ calls'[r] = <<>>

C7_EmptyRegistry == [][C7_Step]_vars

\* a request has ended with the 503 of the empty registry, no backend
\* called, the registry untouched and empty since it began
C7_Witness ==
    \E r \in Requests :
        /\ pc[r] = "done"
        /\ churn[r] = 0
        /\ ollama_hosts = <<>>
        /\ reply[r] = HTTPException(503, "No Ollama hosts registered")
        /\ calls[r] = <<>>

\* ---- C8 ----------------------------------------------------------------
\* the request is over, no forward succeeded, and the registry is the one
\* the request began with
AllFailedStatic(r) ==
    /\ pc[r] = "done"
    /\ response[r] = NoResponse
    /\ churn[r] = 0

\* C8: with the registry unchanged during the request, a request none of
\* whose forwards succeeds has forwarded to every registered host exactly
\* once, whatever the counter was, and answers 503.
C8_ExhaustsRegistry ==
    \A r \in Requests :
        AllFailedStatic(r) =>
            /\ reply[r].status = 503
            /\ NoDup(calls[r])
            /\ Range(calls[r]) = Range(ollama_hosts)
            /\ Len(calls[r]) = Len(ollama_hosts)

\* three hosts, the first forward went to the second of them (counter not a
\* multiple of 3), all three failed
C8_Witness ==
    \E r \in Requests :
        /\ AllFailedStatic(r)
        /\ Len(ollama_hosts) = 3
        /\ calls[r] = <<ollama_hosts[2], ollama_hosts[3], ollama_hosts[1]>>
        /\ reply[r] = HTTPException(503, "All available hosts failed")

\* ---- C9 ----------------------------------------------------------------
\* C9: forward_request is called at most once with the same host within one
\* request, whatever register and unregister calls interleave with it.
C9_NoHostTwice == \A r \in Requests : NoDup(calls[r])

\* a host the request had tried was unregistered and registered again while
\* the request was in flight; the request went on to another host and ended
\* exhausted with the re-registered host in the registry
C9_Witness ==
    \E r \in Requests :
        /\ pc[r] = "done"
        /\ churn[r] = 2
        /\ Len(calls[r]) >= 2
        /\ Contains(ollama_hosts, calls[r][1])
        /\ reply[r] = HTTPException(503, "All available hosts failed")

\* ---- C10 ---------------------------------------------------------------
\* C10: register compares URLs with the trailing slash stripped, so no two
\* entries of the registry are equal once their trailing slashes are
\* stripped.
C10_NormalizedUnique ==
    \A i, j \in 1..Len(ollama_hosts) :
        i # j => rstrip(ollama_hosts[i]) # rstrip(ollama_hosts[j])


\* ---- C19 ---------------------------------------------------------------
\* the 0-based position the scan starts at: just after the failed host, or
\* the first entry when the failed host is not registered any more
ScanStart(hosts, failed) ==
    IF \E k \in 1..Len(hosts) : hosts[k] = failed
    THEN CHOOSE k \in 1..Len(hosts) : hosts[k] = failed
    ELSE 0

\* the distances from the start, going round the registry once, at which a
\* host stands that the request has not tried
UntriedAt(hosts, tried, start) ==
    {d \in 0..(Len(hosts) - 1) :
        hosts[((start + d) % Len(hosts)) + 1] \notin Range(tried)}

\* the smallest element of a non-empty set of numbers
Least(S) == CHOOSE d \in S : \A e \in S : d <= e

\* C19: the failover step picks the first host, in registry order from
\* just after the failed host's index and wrapping around, that is not in
\* tried_hosts; with the failed host unregistered it starts at the first
\* entry; it gives up exactly when no registered host is untried.
C19_Step ==
    \A r \in Requests :
        (pc[r] = "scan" /\ pc'[r] # "scan" /\ ollama_hosts # <<>>) =>
            LET start == ScanStart(ollama_hosts, current_host[r])
                open == UntriedAt(ollama_hosts, tried_hosts[r], start)
            IN  IF open = {}
                THEN pc'[r] = "done"
                ELSE /\ pc'[r] = "send"
                     /\ current_host'[r] =
                          ollama_hosts[((start + Least(open)) % Len(ollama_hosts)) + 1]

C19_NextUntriedHost == [][C19_Step]_vars

\* the host that failed has been unregistered; the failover chose the first
\* entry of a registry of two and is about to forward to it
C19_Witness ==
    \E r \in Requests :
        /\ pc[r] = "send"
        /\ running = r
        /\ Len(tried_hosts[r]) = 1
        /\ ~Contains(ollama_hosts, tried_hosts[r][1])
        /\ Len(ollama_hosts) = 2
        /\ current_host[r] = ollama_hosts[1]


\* ---- C15 ---------------------------------------------------------------
\* C15: a request waiting for a backend's answer holds neither `lock` nor
\* `_counter_lock`, nor the event loop thread, so the other request's
\* get_next_host and failover and any register or unregister can run to
\* their end meanwhile.
C15_ForwardHoldsNoLock ==
    \A r \in Coroutines :
        pc[r] = "forward_wait" => (lock # r /\ counter_lock # r /\ running # r)

\* r1 is still waiting for the answer of its first forward; since r1 began
\* the registry was changed by a completed call, and r2 has got a host from
\* get_next_host, failed on it, run the failover and forwarded again
C15_Witness ==
    /\ pc["r1"] = "forward_wait"
    /\ Len(tried_hosts["r1"]) = 1
    /\ churn["r1"] >= 1
    /\ \A t \in Threads : tpc[t] = "idle"
    /\ pc["r2"] = "forward_wait"
    /\ Len(tried_hosts["r2"]) = 2
    /\ lock = None
    /\ counter_lock = None

\* ---- C17 ---------------------------------------------------------------
\* a get_next_host call returns a host: line 101 and the return
NextReturns(r) == pc[r] = "gnh_incr" /\ pc'[r] = "send"

\* every step leaves the counter alone unless it is the return of a
\* get_next_host call, which adds exactly one
C17_Step ==
    /\ (\E r \in Coroutines : NextReturns(r)) => host_counter' = host_counter + 1
    /\ host_counter' # host_counter => \E r \in Coroutines : NextReturns(r)

\* at most one call is inside the `with _counter_lock:` block, and it holds
\* the lock: the value a call reads is the one it advances
C17_OneAtATime ==
    \A r \in Coroutines :
        pc[r] \in {"gnh_empty", "gnh_len", "gnh_index", "gnh_incr"} =>
            counter_lock = r

\* C17: the counter starts at 0, is advanced by exactly one by each
\* get_next_host call that returns a host and by nothing else (so it equals
\* the number of such calls, and no two calls get the same value), and is
\* never decreased or reset by register, unregister or a failing call.
C17_CursorCountsNextCalls ==
    /\ host_counter = 0
    /\ [][C17_Step]_vars
    /\ []C17_OneAtATime

\* both requests are in flight, each after its own get_next_host call, on a
\* registry of two hosts: the counter is 2 and they got different hosts
C17_Witness ==
    /\ pc["r1"] = "forward_wait"
    /\ pc["r2"] = "forward_wait"
    /\ Len(tried_hosts["r1"]) = 1
    /\ Len(tried_hosts["r2"]) = 1
    /\ host_counter = 2
    /\ churn["r1"] = 0
    /\ Len(ollama_hosts) = 2
    /\ tried_hosts["r1"][1] # tried_hosts["r2"][1]

\* ---- C20 ---------------------------------------------------------------
\* a step of request r's retry: entering the failover's lock, the scan, or
\* the forward that follows it
RetryStep(r) ==
    \/ pc[r] = "scan_lock" /\ pc'[r] = "scan"
    \/ pc[r] = "scan" /\ pc'[r] # "scan"
    \/ pc[r] = "send" /\ tried_hosts[r] # <<>> /\ pc'[r] = "forward_wait"

\* C20: a retry step of one request leaves the registry, the counter and
\* the other request's tried_hosts and current host as they are.
C20_Step ==
    \A r \in Coroutines :
        RetryStep(r) =>
            /\ ollama_hosts' = ollama_hosts
            /\ host_counter' = host_counter
            /\ \A q \in Coroutines \ {r} :
                  /\ tried_hosts'[q] = tried_hosts[q]
                  /\ current_host'[q] = current_host[q]
                  /\ calls'[q] = calls[q]

C20_RetriesAreLocal == [][C20_Step]_vars

\* r1 has retried once and forwards to its second host while r2 is in
\* flight on its first
C20_Witness ==
    /\ pc["r1"] = "forward_wait"
    /\ Len(tried_hosts["r1"]) = 2
    /\ pc["r2"] = "forward_wait"
    /\ Len(tried_hosts["r2"]) = 1
    /\ host_counter = 2

\* ---- C11 ---------------------------------------------------------------
\* C11: the status register and unregister return tells whether the
\* registry changed: no status is returned both by a call that changed the
\* list and by a call that left it as it was.
C11_StatusTellsChange ==
    \A t \in Threads, u \in Threads :
        (tret[t].status # None /\ tret[t].status = tret[u].status) =>
            tchanged[t] = tchanged[u]

\* ---- C12 ---------------------------------------------------------------
FanoutPcs ==
    {"pull_next", "pull_wait", "pull_return",
     "list_next", "list_wait", "list_return"}

\* the hosts of the calls a fan-out has made, in the order it made them
Called_hosts(t) == [i \in 1..Len(fcalls[t]) |-> fcalls[t][i][1]]

\* C12: a fan-out calls the hosts of the registry in order, each once, and
\* at the end of its loop has called all of them; its map has exactly one
\* entry per host called, a failure message where the call failed and the
\* answer where it did not; a failed call does not end the loop.
C12_FanoutCallsEveryHost ==
    \A t \in Threads :
        tpc[t] \in FanoutPcs =>
            LET n == Len(fcalls[t]) IN
            /\ n <= Len(ollama_hosts)
            /\ Called_hosts(t) = SubSeq(ollama_hosts, 1, n)
            /\ NoDup(Called_hosts(t))
            /\ DictKeys(results[t]) = Called_hosts(t)
            /\ \A i \in 1..n :
                  (results[t][i][2][1] = "failed: ") <=> (fcalls[t][i][2] # "ok")
            /\ tpc[t] \in {"pull_return", "list_return"} =>
                  n = Len(ollama_hosts)

\* a pull over three hosts is at its return: the first host's call failed
\* and the two after it were still made, the last one well
C12_Witness ==
    \E t \in Threads :
        /\ tpc[t] = "pull_return"
        /\ Len(fcalls[t]) = 3
        /\ fcalls[t][1][2] = "HTTPError"
        /\ fcalls[t][3][2] = "ok"
        /\ Len(results[t]) = 3

\* ---- C16 ---------------------------------------------------------------
\* C16: no operation holds the registry lock while it waits for a backend:
\* a fan-out waiting for a host's answer does not hold `lock`.
C16_NoLockAcrossBackendCall ==
    \A t \in Threads :
        tpc[t] \in {"pull_wait", "list_wait"} => lock # t

\* ---- C13 ---------------------------------------------------------------
\* C13: the relay does not wait for the whole backend body: once the
\* backend has sent a first chunk of a body that is not yet complete, the
\* forward can return and the reply to the caller begin.
C13_RelaysBeforeBodyEnds ==
    \A r \in Requests :
        (/\ pc[r] = "forward_wait"
         /\ running = None
         /\ inflight[r] # NoResponse
         /\ recv[r] >= chunk_size
         /\ recv[r] < inflight[r].len) => ENABLED RelayOk(r)

\* ---- C14 ---------------------------------------------------------------
\* the query parameters a backend call carries
ParamsOf(call) == IF call.params = NoData THEN <<>> ELSE call.params

\* C14: every forward of a request carries the inbound method; a POST's
\* body is the backend's JSON payload, a GET's query parameters are the
\* backend call's parameters; a retry carries what the first attempt did.
C14_PayloadPassedThrough ==
    \A r \in Requests :
        \A i \in 1..Len(sent[r]) :
            LET call == sent[r][i] IN
            /\ call.method = inbound[r].method
            /\ call.method = "POST" => call.json = inbound[r].body
            /\ call.method = "GET" => ParamsOf(call) = inbound[r].query
            /\ call.params = sent[r][1].params
            /\ call.json = sent[r][1].json

\* ---- C18 ---------------------------------------------------------------
\* C18: with hosts only removed while a request is in flight, a request
\* that has ended has ended in SUCCESS (a backend's answer relayed) or in
\* EXHAUSTED (503).
C18_EndsInSuccessOrExhausted ==
    \A r \in Requests :
        pc[r] = "done" =>
            reply[r].status \in OkStatuses \cup {503}

=============================================================================
